---- MODULE Spec2Model ----
(***************************************************************************)
(* The Button atom (shared/components/atoms/Button) and the HeroUI button  *)
(* its test suite puts underneath it.                                      *)
(*                                                                         *)
(* A props object is a function from property names to JavaScript values.  *)
(* A key may be absent, or present with the value undefined: destructuring *)
(* defaults treat the two alike, object spread does not.                   *)
(***************************************************************************)
EXTENDS Integers, FiniteSets, Sequences, TLC

VARIABLES
    pc,      \* per render context: where the context is in its render
    req,     \* per render context: the props object the caller passes to Button
    prev,    \* per render context: the props of the render before the latest
    locals,  \* per render context: the bindings of the Button invocation in flight
    hero,    \* per render context: the props handed to the underlying button
    dom,     \* per render context: what the underlying button rendered
    clicks,  \* per render context: click events fired at the rendered button
    calls,   \* per render context: times the caller's onClick handler ran
    query,   \* Home page: the URL query state (search, category, priority)
    page,    \* Home page: the elements it rendered, in document order
    lastEvent \* Home page: per control, the last event the user fired at it

vars == <<pc, req, prev, locals, hero, dom, clicks, calls, query, page, lastEvent>>

-----------------------------------------------------------------------------
(* Bounds of the model *)

\* Number of independent render contexts.
NumCtx == 2
\* Most optional props (everything but children) a caller writes on one element.
MaxProps == 4
\* Most click events fired at one rendered button.
MaxClicks == 2

Ctx == 1..NumCtx

-----------------------------------------------------------------------------
(* JavaScript values and objects *)

Undefined == <<"undefined">>
Str(s) == <<"string", s>>
Bool(b) == <<"boolean", b>>
Fn(f) == <<"function", f>>

\* An object with no own property; also stands for "no object yet".
Empty == [k \in {} |-> Undefined]

\* o[k]: reading a missing property yields undefined.
Get(o, k) == IF k \in DOMAIN o THEN o[k] ELSE Undefined

\* `name = dflt` in a destructuring pattern: the default applies to undefined only.
OrDefault(v, dflt) == IF v = Undefined THEN dflt ELSE v

\* `...rest` in a destructuring pattern: the own properties not named before it.
Rest(o, named) == [k \in (DOMAIN o) \ named |-> o[k]]

\* {...a, ...b}: every own property of b, undefined ones included, replaces a's.
Spread(a, b) == [k \in (DOMAIN a) \cup (DOMAIN b) |-> IF k \in DOMAIN b THEN b[k] ELSE a[k]]

\* JavaScript truthiness of the values used here.
Truthy(v) == v \notin {Undefined, Bool(FALSE), Str("")}

-----------------------------------------------------------------------------
(* Button *)

\* The props Button names in its parameter pattern; the rest is passthrough.
OwnKeys == {"variant", "size", "children", "loading"}

\* ({ variant = 'primary', size = 'md', children, loading = false, ...props })
DestructureNoLoadingDefault(p) ==
    [variant  |-> OrDefault(Get(p, "variant"), Str("primary")),
     size     |-> OrDefault(Get(p, "size"), Str("md")),
     children |-> Get(p, "children"),
     loading  |-> Get(p, "loading"),
     props    |-> Rest(p, OwnKeys)]

DestructureSizeDefaultLg(p) ==
    [variant  |-> OrDefault(Get(p, "variant"), Str("primary")),
     size     |-> OrDefault(Get(p, "size"), Str("lg")),
     children |-> Get(p, "children"),
     loading  |-> OrDefault(Get(p, "loading"), Bool(FALSE)),
     props    |-> Rest(p, OwnKeys)]

DestructureSizeIgnored(p) ==
    [variant  |-> OrDefault(Get(p, "variant"), Str("primary")),
     size     |-> Str("md"),
     children |-> Get(p, "children"),
     loading  |-> OrDefault(Get(p, "loading"), Bool(FALSE)),
     props    |-> Rest(p, OwnKeys)]

\* Defaults applied only to absent keys, not to keys holding undefined.
DestructureDefaultsOnAbsent(p) ==
    [variant  |-> IF "variant" \in DOMAIN p THEN p["variant"] ELSE Str("primary"),
     size     |-> IF "size" \in DOMAIN p THEN p["size"] ELSE Str("md"),
     children |-> Get(p, "children"),
     loading  |-> IF "loading" \in DOMAIN p THEN p["loading"] ELSE Bool(FALSE),
     props    |-> Rest(p, OwnKeys)]

\* A rest that keeps variant and size among the passthrough props.
DestructureRestKeepsOwn(p) ==
    [variant  |-> OrDefault(Get(p, "variant"), Str("primary")),
     size     |-> OrDefault(Get(p, "size"), Str("md")),
     children |-> Get(p, "children"),
     loading  |-> OrDefault(Get(p, "loading"), Bool(FALSE)),
     props    |-> Rest(p, {"children", "loading"})]

Destructure(p) ==
    [variant  |-> OrDefault(Get(p, "variant"), Str("primary")),
     size     |-> OrDefault(Get(p, "size"), Str("md")),
     children |-> Get(p, "children"),
     loading  |-> OrDefault(Get(p, "loading"), Bool(FALSE)),
     props    |-> Rest(p, OwnKeys)]

\* switch (customVariant) of getHeroUIVariant: strict equality, default last.
\* A default branch that hands an unknown variant on as the style.
getHeroUIVariantPassUnknown(customVariant) ==
    CASE customVariant = Str("primary")   -> Str("solid")
      [] customVariant = Str("secondary") -> Str("flat")
      [] customVariant = Str("outline")   -> Str("bordered")
      [] customVariant = Str("danger")    -> Str("solid")
      [] OTHER                            -> customVariant

getHeroUIVariant(customVariant) ==
    CASE customVariant = Str("primary")   -> Str("solid")
      [] customVariant = Str("secondary") -> Str("flat")
      [] customVariant = Str("outline")   -> Str("bordered")
      [] customVariant = Str("danger")    -> Str("solid")
      [] OTHER                            -> Str("solid")

getHeroUIColorOutlinePrimary(customVariant) ==
    CASE customVariant = Str("primary")   -> Str("primary")
      [] customVariant = Str("secondary") -> Str("default")
      [] customVariant = Str("outline")   -> Str("primary")
      [] customVariant = Str("danger")    -> Str("danger")
      [] OTHER                            -> Str("primary")

getHeroUIColorDefaultDefault(customVariant) ==
    CASE customVariant = Str("primary")   -> Str("primary")
      [] customVariant = Str("secondary") -> Str("default")
      [] customVariant = Str("outline")   -> Str("default")
      [] customVariant = Str("danger")    -> Str("danger")
      [] OTHER                            -> Str("default")

\* switch (customVariant) of getHeroUIColor.
\* danger coloured like primary.
getHeroUIColorDangerPrimary(customVariant) ==
    CASE customVariant = Str("primary")   -> Str("primary")
      [] customVariant = Str("secondary") -> Str("default")
      [] customVariant = Str("outline")   -> Str("default")
      [] customVariant = Str("danger")    -> Str("primary")
      [] OTHER                            -> Str("primary")

getHeroUIColor(customVariant) ==
    CASE customVariant = Str("primary")   -> Str("primary")
      [] customVariant = Str("secondary") -> Str("default")
      [] customVariant = Str("outline")   -> Str("default")
      [] customVariant = Str("danger")    -> Str("danger")
      [] OTHER                            -> Str("primary")

\* The mapped attributes written before {...props} on <HeroUIButton>.
Mapped(l, heroVariant, heroColor) ==
    [variant |-> heroVariant, color |-> heroColor, size |-> l.size, isLoading |-> l.loading]

\* A loading button takes the muted colour: loading leaks into the mapping.
CreateElementLoadingMuted(l, heroVariant, heroColor) ==
    Spread(Spread(Mapped(l, heroVariant,
                         IF l.loading = Bool(TRUE) THEN Str("default") ELSE heroColor),
                  l.props),
           [children |-> l.children])

\* {...props} written first: the mapped attributes win over passthrough.
CreateElementSpreadFirst(l, heroVariant, heroColor) ==
    Spread(Spread(l.props, Mapped(l, heroVariant, heroColor)), [children |-> l.children])

\* {...props} left out: passthrough is dropped.
CreateElementNoSpread(l, heroVariant, heroColor) ==
    Spread(Mapped(l, heroVariant, heroColor), [children |-> l.children])

\* isDisabled={loading} written among the mapped attributes.
CreateElementDisabledWhileLoading(l, heroVariant, heroColor) ==
    Spread(Spread(Spread(Mapped(l, heroVariant, heroColor), [isDisabled |-> l.loading]),
                  l.props),
           [children |-> l.children])

\* The element body left empty: the content is not handed on.
CreateElementNoChildren(l, heroVariant, heroColor) ==
    Spread(Mapped(l, heroVariant, heroColor), l.props)

\* <HeroUIButton variant=.. color=.. size=.. isLoading=.. {...props}>{children}</HeroUIButton>
\* The attributes are collected left to right, so a passthrough key written
\* after a mapped one replaces it; children comes from the element body.
CreateElement(l, heroVariant, heroColor) ==
    Spread(Spread(Mapped(l, heroVariant, heroColor), l.props), [children |-> l.children])

\* One invocation of Button: the props object handed to the underlying button.
Button(p) ==
    LET l == Destructure(p)
    IN  CreateElement(l, getHeroUIVariant(l.variant), getHeroUIColor(l.variant))

-----------------------------------------------------------------------------
(* The underlying button of the test suite: jest.mock('@heroui/react') *)

MockOwnKeys == {"children", "variant", "color", "size", "isLoading", "isDisabled", "onClick"}

\* The attributes the mock writes on <button> before its own {...props}.
MockAttributes(h) ==
    ("onClick" :> Get(h, "onClick")) @@
    ("disabled" :> Get(h, "isDisabled")) @@
    ("data-testid" :> Str("hero-button")) @@
    ("data-variant" :> Get(h, "variant")) @@
    ("data-color" :> Get(h, "color")) @@
    ("data-size" :> Get(h, "size")) @@
    ("data-loading" :> Get(h, "isLoading"))

\* The mock's render: the <button> props, whether the spinner is among the
\* children ({isLoading && <span data-testid="loading-spinner">}), and the text.
MockButton(h) ==
    [props    |-> Spread(MockAttributes(h), Rest(h, MockOwnKeys)),
     spinner  |-> Truthy(Get(h, "isLoading")),
     children |-> Get(h, "children")]

\* The disabled attribute of the rendered <button>: present iff the prop is truthy.
IsDisabled(d) == Truthy(Get(d.props, "disabled"))

\* The click listener of the rendered <button>, if any.
HasListener(d) == Get(d.props, "onClick")[1] = "function"

\* A data-* attribute as the DOM holds it: undefined leaves the attribute out,
\* a boolean is written as "true" or "false", a string as it is.
ToAttribute(v) ==
    CASE v = Undefined   -> Undefined
      [] v = Bool(TRUE)  -> Str("true")
      [] v = Bool(FALSE) -> Str("false")
      [] OTHER           -> v

Attribute(d, name) == ToAttribute(Get(d.props, name))

-----------------------------------------------------------------------------
(* The callers *)

\* The caller's click handler (jest.fn()).
handleClick == Fn("handleClick")

\* The values a caller writes for each optional prop: what the props type
\* admits, undefined where the key is optional, and one variant outside it.
AttrValues ==
    ("variant"    :> {Undefined, Str("primary"), Str("secondary"), Str("outline"),
                      Str("danger"), Str("ghost")}) @@
    ("size"       :> {Undefined, Str("sm"), Str("md"), Str("lg")}) @@
    ("loading"    :> {Undefined, Bool(TRUE), Bool(FALSE)}) @@
    ("color"      :> {Undefined, Str("success")}) @@
    ("isLoading"  :> {Undefined, Bool(TRUE), Bool(FALSE)}) @@
    ("isDisabled" :> {Bool(TRUE), Bool(FALSE)}) @@
    ("disabled"   :> {Bool(TRUE), Bool(FALSE)}) @@
    ("onClick"    :> {handleClick}) @@
    ("aria-label" :> {Str("Custom Button")})

AttrKeys == DOMAIN AttrValues

\* The elements the Button test suite renders.
TestRequests ==
    { ("children" :> Str("Default Button")),
      ("variant" :> Str("primary")) @@ ("children" :> Str("Primary")),
      ("variant" :> Str("secondary")) @@ ("children" :> Str("Secondary")),
      ("variant" :> Str("outline")) @@ ("children" :> Str("Outline")),
      ("variant" :> Str("danger")) @@ ("children" :> Str("Danger")),
      ("size" :> Str("sm")) @@ ("children" :> Str("Small")),
      ("size" :> Str("md")) @@ ("children" :> Str("Medium")),
      ("size" :> Str("lg")) @@ ("children" :> Str("Large")),
      ("loading" :> Bool(TRUE)) @@ ("children" :> Str("Loading Button")),
      ("loading" :> Bool(FALSE)) @@ ("children" :> Str("Normal Button")),
      ("variant" :> Str("danger")) @@ ("loading" :> Bool(TRUE)) @@
          ("children" :> Str("Loading Danger")),
      ("isDisabled" :> Bool(TRUE)) @@ ("children" :> Str("Disabled Button")),
      ("isDisabled" :> Bool(FALSE)) @@ ("children" :> Str("Enabled Button")),
      ("onClick" :> handleClick) @@ ("children" :> Str("Clickable Button")),
      ("onClick" :> handleClick) @@ ("isDisabled" :> Bool(TRUE)) @@
          ("children" :> Str("Disabled Button")),
      ("data-custom" :> Str("test-value")) @@ ("aria-label" :> Str("Custom Button")) @@
          ("className" :> Str("custom-class")) @@ ("children" :> Str("Custom Button")),
      ("variant" :> Str("primary")) @@ ("size" :> Str("sm")) @@ ("loading" :> Bool(TRUE)) @@
          ("children" :> Str("Loading Small Primary")),
      ("variant" :> Str("outline")) @@ ("size" :> Str("lg")) @@ ("loading" :> Bool(TRUE)) @@
          ("children" :> Str("Loading Large Outline")),
      ("loading" :> Bool(TRUE)) @@ ("isDisabled" :> Bool(TRUE)) @@
          ("aria-describedby" :> Str("help-text")) @@ ("role" :> Str("button")) @@
          ("children" :> Str("Complex Button")) }

\* The args of the Button stories.
StoryRequests ==
    { ("children" :> Str("Button")),
      ("variant" :> Str("primary")) @@ ("children" :> Str("Primary Button")),
      ("variant" :> Str("secondary")) @@ ("children" :> Str("Secondary Button")),
      ("variant" :> Str("outline")) @@ ("children" :> Str("Outline Button")),
      ("variant" :> Str("danger")) @@ ("children" :> Str("Danger Button")),
      ("size" :> Str("sm")) @@ ("children" :> Str("Small Button")),
      ("loading" :> Bool(TRUE)) @@ ("children" :> Str("Loading Button")),
      ("disabled" :> Bool(TRUE)) @@ ("children" :> Str("Disabled Button")),
      ("variant" :> Str("danger")) @@ ("loading" :> Bool(TRUE)) @@
          ("children" :> Str("Danger Loading")),
      ("variant" :> Str("outline")) @@ ("size" :> Str("lg")) @@
          ("children" :> Str("Large Outline Button")),
      ("variant" :> Str("primary")) @@ ("size" :> Str("md")) @@ ("loading" :> Bool(FALSE)) @@
          ("disabled" :> Bool(FALSE)) @@ ("children" :> Str("Playground Button")) }

-----------------------------------------------------------------------------
(* State machine *)

\* The events a user fires at the controls of the Home page.
NoEvent == [kind |-> "none"]
ValueChange(value) == [kind |-> "change", value |-> value]
Clear == [kind |-> "clear"]
SelectionChange(keys) == [kind |-> "select", keys |-> keys]

Init ==
    /\ pc = [c \in Ctx |-> "idle"]
    /\ req = [c \in Ctx |-> Empty]
    /\ prev = [c \in Ctx |-> Empty]
    /\ locals = [c \in Ctx |-> Empty]
    /\ hero = [c \in Ctx |-> Empty]
    /\ dom = [c \in Ctx |-> Empty]
    /\ clicks = [c \in Ctx |-> 0]
    /\ calls = [c \in Ctx |-> 0]
    /\ query = [search |-> << >>, category |-> Str("all"), priority |-> Str("all")]
    /\ page = << >>
    /\ lastEvent = [search |-> NoEvent, category |-> NoEvent, priority |-> NoEvent]

\* The context a single-context run uses.
Main == CHOOSE c \in Ctx : \A d \in Ctx : c <= d

\* The caller opens <Button> with its content.
Begin(c) ==
    /\ pc[c] = "idle"
    /\ pc' = [pc EXCEPT ![c] = "building"]
    /\ req' = [req EXCEPT ![c] = [children |-> Str("Go")]]
    /\ UNCHANGED <<query, page, lastEvent, prev, locals, hero, dom, clicks, calls>>

\* The caller writes one more attribute k={v} on the element.
WriteAttr(c, k, v) ==
    /\ pc[c] = "building"
    /\ k \notin DOMAIN req[c]
    /\ Cardinality((DOMAIN req[c]) \ {"children"}) < MaxProps
    /\ req' = [req EXCEPT ![c] = Spread(@, k :> v)]
    /\ UNCHANGED <<query, page, lastEvent, pc, prev, locals, hero, dom, clicks, calls>>

\* Button writes its defaults back into the props object it was passed.
RenderWritesDefaults(c) ==
    /\ pc[c] = "building"
    /\ pc' = [pc EXCEPT ![c] = "committed"]
    /\ hero' = [hero EXCEPT ![c] = Button(req[c])]
    /\ dom' = [dom EXCEPT ![c] = MockButton(Button(req[c]))]
    /\ req' = [req EXCEPT ![c] =
                  Spread(@, [k \in {"variant", "size", "loading"} |-> Destructure(@)[k]])]
    /\ UNCHANGED <<query, page, lastEvent, prev, locals, clicks, calls>>

\* render(<Button ...>): Button runs to completion and the underlying button
\* renders what it was handed.
Render(c) ==
    /\ pc[c] = "building"
    /\ pc' = [pc EXCEPT ![c] = "committed"]
    /\ hero' = [hero EXCEPT ![c] = Button(req[c])]
    /\ dom' = [dom EXCEPT ![c] = MockButton(Button(req[c]))]
    /\ UNCHANGED <<query, page, lastEvent, req, prev, locals, clicks, calls>>

\* fireEvent.click(button): the listener of an enabled button runs once; a
\* disabled button, or one without a listener, runs nothing.
Click(c) ==
    /\ pc[c] = "committed"
    /\ clicks[c] < MaxClicks
    /\ clicks' = [clicks EXCEPT ![c] = @ + 1]
    /\ calls' = [calls EXCEPT ![c] =
                    IF HasListener(dom[c]) /\ ~IsDisabled(dom[c]) THEN @ + 1 ELSE @]
    /\ UNCHANGED <<query, page, lastEvent, pc, req, prev, locals, hero, dom>>

Next ==
    \/ Begin(Main)
    \/ \E k \in AttrKeys : \E v \in AttrValues[k] : WriteAttr(Main, k, v)
    \/ Render(Main)
    \/ Click(Main)

Spec == Init /\ [][Next]_vars

-----------------------------------------------------------------------------
(* Renders and re-renders of one mounted Button *)

\* render(<Button ...>) of an element of the test suite.
Mount(c, r) ==
    /\ pc[c] = "idle"
    /\ pc' = [pc EXCEPT ![c] = "committed"]
    /\ req' = [req EXCEPT ![c] = r]
    /\ hero' = [hero EXCEPT ![c] = Button(r)]
    /\ dom' = [dom EXCEPT ![c] = MockButton(Button(r))]
    /\ UNCHANGED <<query, page, lastEvent, prev, locals, clicks, calls>>

\* A module-level props object that every render merges into.
RerenderMerging(c, r) ==
    /\ pc[c] = "committed"
    /\ prev' = [prev EXCEPT ![c] = req[c]]
    /\ req' = [req EXCEPT ![c] = r]
    /\ hero' = [hero EXCEPT ![c] = Spread(hero[c], Button(r))]
    /\ dom' = [dom EXCEPT ![c] = MockButton(Spread(hero[c], Button(r)))]
    /\ UNCHANGED <<query, page, lastEvent, pc, locals, clicks, calls>>

\* rerender(<Button ...>): the same Button is invoked again with the new
\* element's props, and the underlying button renders what it is handed now.
Rerender(c, r) ==
    /\ pc[c] = "committed"
    /\ prev' = [prev EXCEPT ![c] = req[c]]
    /\ req' = [req EXCEPT ![c] = r]
    /\ hero' = [hero EXCEPT ![c] = Button(r)]
    /\ dom' = [dom EXCEPT ![c] = MockButton(Button(r))]
    /\ UNCHANGED <<query, page, lastEvent, pc, locals, clicks, calls>>

NextRerender ==
    \/ \E r \in TestRequests : Mount(Main, r)
    \/ \E r \in TestRequests : Rerender(Main, r)

SpecRerender == Init /\ [][NextRerender]_vars

-----------------------------------------------------------------------------
(* Several render contexts, each invocation of Button taken step by step *)

\* Every context's invocation takes the frame of the first: the bindings are
\* module-level variables instead of parameters.
FrameShared(c) == Main

\* The frame holding the bindings of context c's invocation: parameters and
\* inner constants are created anew by every call.
Frame(c) == c

\* Button is called: the parameter pattern binds variant, size, children,
\* loading and props.
Invoke(c, r) ==
    /\ pc[c] = "idle"
    /\ pc' = [pc EXCEPT ![c] = "destructured"]
    /\ req' = [req EXCEPT ![c] = r]
    /\ locals' = [locals EXCEPT ![Frame(c)] = Destructure(r)]
    /\ UNCHANGED <<query, page, lastEvent, prev, hero, dom, clicks, calls>>

\* variant={getHeroUIVariant(variant)}
MapVariant(c) ==
    /\ pc[c] = "destructured"
    /\ pc' = [pc EXCEPT ![c] = "variantMapped"]
    /\ locals' = [locals EXCEPT ![Frame(c)] =
                     Spread(@, [heroVariant |-> getHeroUIVariant(locals[Frame(c)].variant)])]
    /\ UNCHANGED <<query, page, lastEvent, req, prev, hero, dom, clicks, calls>>

\* color={getHeroUIColor(variant)}
MapColor(c) ==
    /\ pc[c] = "variantMapped"
    /\ pc' = [pc EXCEPT ![c] = "colorMapped"]
    /\ locals' = [locals EXCEPT ![Frame(c)] =
                     Spread(@, [heroColor |-> getHeroUIColor(locals[Frame(c)].variant)])]
    /\ UNCHANGED <<query, page, lastEvent, req, prev, hero, dom, clicks, calls>>

\* The remaining attributes are collected and the element is returned.
Return(c) ==
    /\ pc[c] = "colorMapped"
    /\ pc' = [pc EXCEPT ![c] = "returned"]
    /\ hero' = [hero EXCEPT ![c] =
                   CreateElement(locals[Frame(c)], Get(locals[Frame(c)], "heroVariant"),
                                 Get(locals[Frame(c)], "heroColor"))]
    /\ UNCHANGED <<query, page, lastEvent, req, prev, locals, dom, clicks, calls>>

\* The underlying button renders the element it was handed.
Commit(c) ==
    /\ pc[c] = "returned"
    /\ pc' = [pc EXCEPT ![c] = "committed"]
    /\ dom' = [dom EXCEPT ![c] = MockButton(hero[c])]
    /\ UNCHANGED <<query, page, lastEvent, req, prev, locals, hero, clicks, calls>>

NextConc ==
    \E c \in Ctx :
        \/ \E r \in StoryRequests : Invoke(c, r)
        \/ MapVariant(c)
        \/ MapColor(c)
        \/ Return(c)
        \/ Commit(c)

SpecConc == Init /\ [][NextConc]_vars

-----------------------------------------------------------------------------
(* The Home page, rendered with the HeroUI and next/image mocks of its test *)

\* Most characters typed into the search input.
MaxSearchLen == 2

\* The characters a user types.
SearchChars == {"a", "b"}

CategoryKeys == {"all", "frontend", "backend", "design"}
PriorityKeys == {"all", "high", "medium", "low"}

\* A string made of typed characters.
Chars(seq) == <<"chars", seq>>

\* The text {value} followed by a literal.
Suffixed(value, literal) == <<"text", value, literal>>

\* A rendered element: its tag, its attributes and its own text.
El(tag, attrs, text) == [tag |-> tag, attrs |-> attrs, text |-> text]

TestId(id) == "data-testid" :> Str(id)

\* MockImage: <img src alt width height {...props} data-testid="next-image" />
Image(p) == El("img", Spread(p, TestId("next-image")), Str(""))

\* The mock Button: an <a> when as is 'a' or href is set, a <button> otherwise;
\* as, href, startContent and children are taken out of the spread props.
HomeButton(p, text) ==
    LET Component == OrDefault(Get(p, "as"), Str("button"))
        restProps == Rest(p, {"children", "as", "href", "startContent"})
    IN  IF Component = Str("a") \/ Truthy(Get(p, "href"))
        THEN El("a", Spread(Spread("href" :> Get(p, "href"), restProps),
                            TestId("hero-button")), text)
        ELSE El("button", Spread(restProps, TestId("hero-button")), text)

\* The mock Link: <a href {...restProps} data-testid="hero-link">
Link(p, text) ==
    El("a", Spread(Spread("href" :> Get(p, "href"),
                          Rest(p, {"children", "href", "showAnchorIcon"})),
                   TestId("hero-link")), text)

\* The mock Chip: <span {...props} data-testid="hero-chip">
Chip(p, text) == El("span", Spread(p, TestId("hero-chip")), text)

Blank == ("target" :> Str("_blank")) @@ ("rel" :> Str("noopener noreferrer"))

\* SearchDemo: label, input, and the current search when it is not empty.
SearchDemo(search) ==
    << El("label", Empty, Str("Search")),
       El("input", ("value" :> Chars(search)) @@
                   ("placeholder" :> Str("Type to search and watch the URL change...")) @@
                   TestId("hero-input"), Str("")) >>
    \o (IF search # << >>
        THEN << El("p", Empty, Str("Current search: ")), El("span", Empty, Chars(search)) >>
        ELSE << >>)

\* The active-filters panel titled with a heading.
ActiveFiltersHeading(category, priority) ==
    IF category # Str("all") \/ priority # Str("all")
    THEN << El("h3", Empty, Str("Active filters:")) >>
         \o (IF category # Str("all")
             THEN << Chip(("size" :> Str("sm")) @@ ("variant" :> Str("flat")) @@
                          ("color" :> Str("primary")), category) >>
             ELSE << >>)
         \o (IF priority # Str("all")
             THEN << Chip(("size" :> Str("sm")) @@ ("variant" :> Str("flat")) @@
                          ("color" :> Str("secondary")), Suffixed(priority, " priority")) >>
             ELSE << >>)
    ELSE << >>

\* A panel shown only when both filters are set.
ActiveFiltersBoth(category, priority) ==
    IF category # Str("all") /\ priority # Str("all")
    THEN << El("p", Empty, Str("Active filters:")) >>
         \o (IF category # Str("all")
             THEN << Chip(("size" :> Str("sm")) @@ ("variant" :> Str("flat")) @@
                          ("color" :> Str("primary")), category) >>
             ELSE << >>)
         \o (IF priority # Str("all")
             THEN << Chip(("size" :> Str("sm")) @@ ("variant" :> Str("flat")) @@
                          ("color" :> Str("secondary")), Suffixed(priority, " priority")) >>
             ELSE << >>)
    ELSE << >>

\* {(category !== 'all' || priority !== 'all') && (...)}: the panel and, in
\* it, one chip for each filter that is not 'all'.
ActiveFilters(category, priority) ==
    IF category # Str("all") \/ priority # Str("all")
    THEN << El("p", Empty, Str("Active filters:")) >>
         \o (IF category # Str("all")
             THEN << Chip(("size" :> Str("sm")) @@ ("variant" :> Str("flat")) @@
                          ("color" :> Str("primary")), category) >>
             ELSE << >>)
         \o (IF priority # Str("all")
             THEN << Chip(("size" :> Str("sm")) @@ ("variant" :> Str("flat")) @@
                          ("color" :> Str("secondary")), Suffixed(priority, " priority")) >>
             ELSE << >>)
    ELSE << >>

\* One mock Select: <select value={selectedKeys?.[0] || ''}> and its options.
Select(label, selected, items) ==
    << El("label", Empty, Str(label)),
       El("select", ("value" :> selected) @@ TestId("hero-select"), Str("")) >>
    \o [i \in 1..Len(items) |-> El("option", TestId("hero-select-item"), Str(items[i]))]

\* FilterDemo: the two selects and the active-filters panel.
FilterDemo(category, priority) ==
    Select("Category", category,
           << "All Categories", "Frontend", "Backend", "Design" >>)
    \o Select("Priority", priority,
              << "All Priorities", "High Priority", "Medium Priority", "Low Priority" >>)
    \o ActiveFilters(category, priority)

\* The first card: heading, instructions and the two action buttons; the
\* start content of a button follows it, as the elements a link holds do.
WelcomeCard ==
    << El("h1", Empty, Str("Welcome to Next.js with HeroUI!")),
       El("hr", TestId("hero-divider"), Str("")),
       El("li", Empty, Str("Get started by editing src/app/page.tsx.")),
       El("li", Empty, Str("Save and see your changes instantly.")),
       El("li", Empty, Str("Now with beautiful HeroUI components!")),
       HomeButton(("as" :> Fn("Link")) @@
                  ("href" :> Str("https://vercel.com/new?utm_source=create-next-app&utm_medium=appdir-template-tw&utm_campaign=create-next-app")) @@ Blank @@
                  ("color" :> Str("primary")) @@ ("startContent" :> Str("Vercel logomark")),
                  Str("Deploy now")),
       El("span", TestId("button-start-content"), Str("")),
       Image(("src" :> Str("/vercel.svg")) @@ ("alt" :> Str("Vercel logomark")) @@
             ("width" :> Str("20")) @@ ("height" :> Str("20"))),
       HomeButton(("as" :> Fn("Link")) @@
                  ("href" :> Str("https://heroui.com/docs")) @@ Blank @@
                  ("variant" :> Str("bordered")),
                  Str("HeroUI Docs")) >>

\* A footer whose last link opens in a new tab without rel.
FooterNoRel ==
    << Link(("href" :> Str("https://nextjs.org/learn?utm_source=create-next-app&utm_medium=appdir-template-tw&utm_campaign=create-next-app")) @@ Blank @@
            ("showAnchorIcon" :> Bool(TRUE)), Str("Learn")),
       Image(("aria-hidden" :> Bool(TRUE)) @@ ("src" :> Str("/file.svg")) @@
             ("alt" :> Str("File icon")) @@ ("width" :> Str("16")) @@ ("height" :> Str("16"))),
       Link(("href" :> Str("https://heroui.com")) @@ Blank @@
            ("showAnchorIcon" :> Bool(TRUE)), Str("Examples")),
       Link(("href" :> Str("https://nextjs.org?utm_source=create-next-app&utm_medium=appdir-template-tw&utm_campaign=create-next-app")) @@ ("target" :> Str("_blank")) @@
            ("showAnchorIcon" :> Bool(TRUE)), Str("Go to nextjs.org")) >>

\* <footer>: the three links.
Footer ==
    << Link(("href" :> Str("https://nextjs.org/learn?utm_source=create-next-app&utm_medium=appdir-template-tw&utm_campaign=create-next-app")) @@ Blank @@
            ("showAnchorIcon" :> Bool(TRUE)), Str("Learn")),
       Image(("aria-hidden" :> Bool(TRUE)) @@ ("src" :> Str("/file.svg")) @@
             ("alt" :> Str("File icon")) @@ ("width" :> Str("16")) @@ ("height" :> Str("16"))),
       Link(("href" :> Str("https://heroui.com")) @@ Blank @@
            ("showAnchorIcon" :> Bool(TRUE)), Str("Examples")),
       Link(("href" :> Str("https://nextjs.org?utm_source=create-next-app&utm_medium=appdir-template-tw&utm_campaign=create-next-app")) @@ Blank @@
            ("showAnchorIcon" :> Bool(TRUE)), Str("Go to nextjs.org")) >>

\* Home: what the page renders for a query state, in document order.
Home(q) ==
    << Image(("src" :> Str("/next.svg")) @@ ("alt" :> Str("Next.js logo")) @@
             ("width" :> Str("180")) @@ ("height" :> Str("38"))),
       Chip(("color" :> Str("success")) @@ ("variant" :> Str("flat")), Str("+ HeroUI")) >>
    \o WelcomeCard
    \o << El("h2", Empty, Str("Nuqs Demo - URL Search Parameters")),
          El("hr", TestId("hero-divider"), Str("")) >>
    \o SearchDemo(q.search)
    \o FilterDemo(q.category, q.priority)
    \o Footer

\* A setter that ignores an empty value.
SetQueryDropsEmpty(key, value) ==
    IF value = << >> THEN query ELSE [query EXCEPT ![key] = value]

\* The setter useQueryState returns: the key's state becomes the value set.
SetQuery(key, value) == [query EXCEPT ![key] = value]

\* Array.from(keys)[0] of a selection of at most one key.
FirstKey(keys) == IF keys = {} THEN Undefined ELSE Str(CHOOSE k \in keys : TRUE)

\* The selections a single-choice select reports: one key, or none.
Selections(keys) == {{}} \cup {{k} : k \in keys}

buttonVars == <<pc, req, prev, locals, hero, dom, clicks, calls>>

\* render(<Home />)
MountHome ==
    /\ page = << >>
    /\ page' = Home(query)
    /\ UNCHANGED <<query, lastEvent, buttonVars>>

\* The user types one more character: onValueChange={setSearch}.
TypeChar(ch) ==
    /\ page # << >>
    /\ Len(query.search) < MaxSearchLen
    /\ lastEvent' = [lastEvent EXCEPT !.search = ValueChange(Append(query.search, ch))]
    /\ query' = SetQuery("search", lastEvent'.search.value)
    /\ page' = Home(query')
    /\ UNCHANGED buttonVars

\* The user deletes the last character: onValueChange={setSearch}.
DeleteChar ==
    /\ page # << >>
    /\ query.search # << >>
    /\ lastEvent' = [lastEvent EXCEPT
                        !.search = ValueChange(SubSeq(query.search, 1, Len(query.search) - 1))]
    /\ query' = SetQuery("search", lastEvent'.search.value)
    /\ page' = Home(query')
    /\ UNCHANGED buttonVars

\* The user clears the input: onClear={() => setSearch('')}.
ClearSearch ==
    /\ page # << >>
    /\ lastEvent' = [lastEvent EXCEPT !.search = Clear]
    /\ query' = SetQuery("search", << >>)
    /\ page' = Home(query')
    /\ UNCHANGED buttonVars

\* A category handler without the fallback: setCategory(selected).
SelectCategoryNoFallback(keys) ==
    /\ page # << >>
    /\ lastEvent' = [lastEvent EXCEPT !.category = SelectionChange(keys)]
    /\ query' = SetQuery("category", FirstKey(keys))
    /\ page' = Home(query')
    /\ UNCHANGED buttonVars

\* onSelectionChange of the category select: setCategory(selected || 'all').
SelectCategory(keys) ==
    /\ page # << >>
    /\ lastEvent' = [lastEvent EXCEPT !.category = SelectionChange(keys)]
    /\ query' = SetQuery("category",
                         IF Truthy(FirstKey(keys)) THEN FirstKey(keys) ELSE Str("all"))
    /\ page' = Home(query')
    /\ UNCHANGED buttonVars

\* onSelectionChange of the priority select: setPriority(selected || 'all').
SelectPriority(keys) ==
    /\ page # << >>
    /\ lastEvent' = [lastEvent EXCEPT !.priority = SelectionChange(keys)]
    /\ query' = SetQuery("priority",
                         IF Truthy(FirstKey(keys)) THEN FirstKey(keys) ELSE Str("all"))
    /\ page' = Home(query')
    /\ UNCHANGED buttonVars

NextHome ==
    \/ MountHome
    \/ \E ch \in SearchChars : TypeChar(ch)
    \/ DeleteChar
    \/ ClearSearch
    \/ \E keys \in Selections(CategoryKeys) : SelectCategory(keys)
    \/ \E keys \in Selections(PriorityKeys) : SelectPriority(keys)

SpecHome == Init /\ [][NextHome]_vars

-----------------------------------------------------------------------------
(* Properties *)

DefinedVariants == {Str("primary"), Str("secondary"), Str("outline"), Str("danger")}

\* The mapping table of the design: variant -> <<style, color>>.
TableRow(v) ==
    CASE v = Str("primary")   -> <<Str("solid"), Str("primary")>>
      [] v = Str("secondary") -> <<Str("flat"), Str("default")>>
      [] v = Str("outline")   -> <<Str("bordered"), Str("default")>>
      [] v = Str("danger")    -> <<Str("solid"), Str("danger")>>

FallbackRow == <<Str("solid"), Str("primary")>>

\* The style/color pair an underlying button was handed.
Pair(h) == <<Get(h, "variant"), Get(h, "color")>>

\* p cut down to the keys in ks.
Only(p, ks) == [k \in (DOMAIN p) \cap ks |-> p[k]]

Committed(c) == pc[c] = "committed"

\* C1 as stated: for each of the four defined variants the underlying button
\* is handed exactly the style/color pair of the table, in every render.
C1_Original ==
    \A c \in Ctx :
        Committed(c) /\ Get(req[c], "variant") \in DefinedVariants
            => Pair(hero[c]) = TableRow(req[c]["variant"])

\* C1: for each of the four defined variants, whatever size and loading are,
\* the underlying button is handed the style of the table, and the color of
\* the table unless the caller passes a color prop of its own.
C1_VariantTable ==
    \A c \in Ctx :
        Committed(c) /\ Get(req[c], "variant") \in DefinedVariants
            => /\ Get(hero[c], "variant") = TableRow(req[c]["variant"])[1]
               /\ "color" \notin DOMAIN req[c]
                    => Get(hero[c], "color") = TableRow(req[c]["variant"])[2]

C1_Witness ==
    \E c \in Ctx :
        /\ Committed(c)
        /\ Get(req[c], "variant") = Str("outline")
        /\ Get(req[c], "size") = Str("lg")
        /\ Get(req[c], "loading") = Bool(TRUE)
        /\ Pair(hero[c]) = <<Str("bordered"), Str("default")>>

\* C2 as stated: the style/color pair is a function of the variant alone; a
\* request and the same request stripped of everything but its variant are
\* handed the same pair.
C2_Original ==
    \A c \in Ctx :
        Committed(c) => Pair(hero[c]) = Pair(Button(Only(req[c], {"variant", "children"})))

\* C2: the style is a function of the variant alone and the color a function
\* of the variant and the caller's color prop alone: size, loading and every
\* other passthrough attribute take no part in the mapping.
C2_MappingInputs ==
    \A c \in Ctx :
        Committed(c) =>
            /\ Get(hero[c], "variant")
                 = Get(Button(Only(req[c], {"variant", "children"})), "variant")
            /\ Pair(hero[c]) = Pair(Button(Only(req[c], {"variant", "color", "children"})))

C2_Witness ==
    \E c \in Ctx :
        /\ Committed(c)
        /\ Get(req[c], "variant") = Str("secondary")
        /\ {"loading", "onClick", "aria-label"} \subseteq DOMAIN req[c]
        /\ Pair(hero[c]) = <<Str("flat"), Str("default")>>

\* C3 as stated: for any variant value outside the four defined ones the
\* render completes and the pair handed on is the primary row.
C3_Original ==
    \A c \in Ctx :
        /\ pc[c] = "building" => ENABLED Render(c)
        /\ Committed(c) /\ "variant" \in DOMAIN req[c]
             /\ req[c]["variant"] \notin DefinedVariants
                => Pair(hero[c]) = FallbackRow

\* C3: for any variant value outside the four defined ones the render
\* completes, the style handed on is solid, and the color is primary unless
\* the caller passes a color prop of its own.
C3_Fallback ==
    \A c \in Ctx :
        /\ pc[c] = "building" => ENABLED Render(c)
        /\ Committed(c) /\ "variant" \in DOMAIN req[c]
             /\ req[c]["variant"] \notin DefinedVariants
                => /\ Get(hero[c], "variant") = FallbackRow[1]
                   /\ "color" \notin DOMAIN req[c] => Get(hero[c], "color") = FallbackRow[2]

C3_Witness ==
    \E c \in Ctx :
        /\ Committed(c)
        /\ Get(req[c], "variant") = Str("ghost")
        /\ "color" \notin DOMAIN req[c]
        /\ Pair(hero[c]) = FallbackRow

\* C4 as stated: in every render the busy flag handed on is true when loading
\* is true and false when loading is false or omitted, and the spinner of the
\* test's underlying button is present exactly when loading is true.
C4_Original ==
    \A c \in Ctx :
        Committed(c) =>
            /\ Get(hero[c], "isLoading") = Bool(Get(req[c], "loading") = Bool(TRUE))
            /\ dom[c].spinner = (Get(req[c], "loading") = Bool(TRUE))

\* C4: in every render whose caller passes no isLoading prop of its own, the
\* busy flag handed on is true when loading is true and false when loading is
\* false or omitted, and the spinner is present exactly when loading is true.
C4_BusyFlag ==
    \A c \in Ctx :
        Committed(c) /\ "isLoading" \notin DOMAIN req[c] =>
            /\ Get(hero[c], "isLoading") = Bool(Get(req[c], "loading") = Bool(TRUE))
            /\ dom[c].spinner = (Get(req[c], "loading") = Bool(TRUE))

C4_Witness ==
    \E c \in Ctx :
        /\ Committed(c)
        /\ Get(req[c], "variant") = Str("danger")
        /\ Get(req[c], "loading") = Bool(TRUE)
        /\ Pair(hero[c]) = <<Str("solid"), Str("danger")>>
        /\ Get(hero[c], "isLoading") = Bool(TRUE)
        /\ dom[c].spinner

\* C5: every prop other than variant, size, loading and children reaches the
\* underlying button under the same key with the same value.
C5_Forwarding ==
    \A c \in Ctx :
        Committed(c) =>
            \A k \in (DOMAIN req[c]) \ {"variant", "size", "loading", "children"} :
                k \in DOMAIN hero[c] /\ hero[c][k] = req[c][k]

C5_Witness ==
    \E c \in Ctx :
        /\ Committed(c)
        /\ Get(req[c], "color") = Str("success")
        /\ Get(req[c], "onClick") = handleClick
        /\ Get(req[c], "aria-label") = Str("Custom Button")
        /\ Get(hero[c], "color") = Str("success")

\* C6: a Button rendered with only content hands the underlying button
\* style solid, color primary, size md and busy false.
C6_Defaults ==
    \A c \in Ctx :
        Committed(c) /\ DOMAIN req[c] = {"children"} =>
            hero[c] = [variant |-> Str("solid"), color |-> Str("primary"), size |-> Str("md"),
                       isLoading |-> Bool(FALSE), children |-> req[c]["children"]]

C6_Witness ==
    \E c \in Ctx : Committed(c) /\ req[c] = [children |-> Str("Go")]

\* C7: for each size in {sm, md, lg} and every variant and loading value, the
\* size handed to the underlying button is the size the caller supplied.
C7_SizeIdentity ==
    \A c \in Ctx :
        Committed(c) /\ Get(req[c], "size") \in {Str("sm"), Str("md"), Str("lg")}
            => Get(hero[c], "size") = req[c]["size"]

C7_Witness ==
    \E c \in Ctx :
        /\ Committed(c)
        /\ Get(req[c], "size") = Str("lg")
        /\ Get(req[c], "variant") = Str("danger")
        /\ Get(req[c], "loading") = Bool(TRUE)
        /\ Get(hero[c], "size") = Str("lg")

\* C8: after any sequence of renders and re-renders of the same Button, what
\* the underlying button holds is exactly what the latest props give; no key
\* or value of an earlier render survives.
C8_NoRetainedState ==
    \A c \in Ctx :
        Committed(c) =>
            /\ hero[c] = Button(req[c])
            /\ dom[c] = MockButton(Button(req[c]))
            /\ DOMAIN hero[c] \subseteq
                 {"variant", "color", "size", "isLoading", "children"} \cup DOMAIN req[c]

C8_Witness ==
    \E c \in Ctx :
        /\ Committed(c)
        /\ Get(prev[c], "isDisabled") = Bool(TRUE)
        /\ Get(prev[c], "loading") = Bool(TRUE)
        /\ Get(prev[c], "variant") = Undefined
        /\ Get(req[c], "variant") = Str("outline")
        /\ "isDisabled" \notin DOMAIN hero[c]
        /\ Get(hero[c], "isLoading") = Bool(FALSE)
        /\ ~IsDisabled(dom[c])

\* C9: with several render contexts rendering in any interleaving, each
\* context's output is the one its own request gives when rendered alone.
C9_Isolation ==
    \A c \in Ctx :
        /\ pc[c] \in {"returned", "committed"} => hero[c] = Button(req[c])
        /\ pc[c] = "committed" => dom[c] = MockButton(Button(req[c]))

C9_Witness ==
    \E c, d \in Ctx :
        /\ c # d
        /\ pc[c] = "committed"
        /\ pc[d] = "variantMapped"
        /\ Get(req[c], "variant") = Str("outline")
        /\ Get(req[d], "variant") = Str("danger")
        /\ Pair(hero[c]) = <<Str("bordered"), Str("default")>>

\* A step in which a click event is fired at context c's button.
ClickStep(c) == clicks'[c] = clicks[c] + 1

\* C10 as stated: the caller's onClick handler is called exactly once per
\* click while the button is not disabled, and never while the Button is
\* rendered with isDisabled true.
C10_Original ==
    [][\A c \in Ctx :
          ClickStep(c) /\ Get(req[c], "onClick") = handleClick =>
              /\ ~IsDisabled(dom[c]) => calls'[c] = calls[c] + 1
              /\ Get(req[c], "isDisabled") = Bool(TRUE) => calls'[c] = calls[c]]_vars

\* C10: the caller's onClick handler is called exactly once per click while
\* the rendered button is not disabled, and never while the Button is
\* rendered with isDisabled true and no disabled prop of the caller's own.
C10_ClickHandling ==
    [][\A c \in Ctx :
          ClickStep(c) /\ Get(req[c], "onClick") = handleClick =>
              /\ ~IsDisabled(dom[c]) => calls'[c] = calls[c] + 1
              /\ Get(req[c], "isDisabled") = Bool(TRUE) /\ "disabled" \notin DOMAIN req[c]
                    => calls'[c] = calls[c]]_vars

C10_Witness ==
    \E c \in Ctx :
        /\ Committed(c)
        /\ Get(req[c], "onClick") = handleClick
        /\ Get(req[c], "isDisabled") = Bool(TRUE)
        /\ "disabled" \notin DOMAIN req[c]
        /\ clicks[c] >= 2
        /\ calls[c] = 0

\* C11 as stated: the rendered button is disabled exactly when the caller
\* passes isDisabled true, for every variant, size and loading value.
C11_Original ==
    \A c \in Ctx :
        Committed(c) => (IsDisabled(dom[c]) <=> Get(req[c], "isDisabled") = Bool(TRUE))

\* C11: in every render whose caller passes no disabled prop of its own, the
\* rendered button is disabled exactly when the caller passes isDisabled
\* true, for every variant, size and loading value.
C11_DisabledState ==
    \A c \in Ctx :
        Committed(c) /\ "disabled" \notin DOMAIN req[c]
            => (IsDisabled(dom[c]) <=> Get(req[c], "isDisabled") = Bool(TRUE))

C11_Witness ==
    \E c \in Ctx :
        /\ Committed(c)
        /\ Get(req[c], "isDisabled") = Bool(TRUE)
        /\ Get(req[c], "loading") = Bool(FALSE)
        /\ Get(req[c], "variant") = Str("secondary")
        /\ "disabled" \notin DOMAIN req[c]
        /\ IsDisabled(dom[c])

\* The accessibility attributes among the props of a request.
AriaKeys(p) == (DOMAIN p) \cap {"aria-label", "aria-describedby", "role"}

\* C12 as stated: for each combination of loading and isDisabled the
\* underlying button receives both values intact together with every
\* accessibility attribute, and Button sets no disabled flag of its own.
C12_Original ==
    \A c \in Ctx :
        Committed(c) =>
            /\ Get(hero[c], "isLoading") = Bool(Get(req[c], "loading") = Bool(TRUE))
            /\ Get(hero[c], "isDisabled") = Get(req[c], "isDisabled")
            /\ \A k \in {"isDisabled", "disabled"} : k \in DOMAIN hero[c] => k \in DOMAIN req[c]
            /\ \A k \in AriaKeys(req[c]) : Get(hero[c], k) = req[c][k]

\* C12: the same, in every render whose caller passes no isLoading prop of
\* its own.
C12_Independent ==
    \A c \in Ctx :
        Committed(c) =>
            /\ "isLoading" \notin DOMAIN req[c]
                  => Get(hero[c], "isLoading") = Bool(Get(req[c], "loading") = Bool(TRUE))
            /\ Get(hero[c], "isDisabled") = Get(req[c], "isDisabled")
            /\ \A k \in {"isDisabled", "disabled"} : k \in DOMAIN hero[c] => k \in DOMAIN req[c]
            /\ \A k \in AriaKeys(req[c]) : Get(hero[c], k) = req[c][k]

C12_Witness ==
    \E c \in Ctx :
        /\ Committed(c)
        /\ Get(req[c], "loading") = Bool(TRUE)
        /\ "isDisabled" \notin DOMAIN req[c]
        /\ Get(req[c], "aria-label") = Str("Custom Button")
        /\ Get(hero[c], "isLoading") = Bool(TRUE)
        /\ "isDisabled" \notin DOMAIN hero[c]
        /\ ~IsDisabled(dom[c])

\* C13: every render hands the underlying button one element whose content
\* is the caller's children unchanged, and that is the content rendered.
C13_Children ==
    \A c \in Ctx :
        Committed(c) =>
            /\ "children" \in DOMAIN hero[c]
            /\ hero[c]["children"] = req[c]["children"]
            /\ dom[c].children = req[c]["children"]

C13_Witness ==
    \E c \in Ctx :
        /\ Committed(c)
        /\ Get(prev[c], "children") = Str("Default Button")
        /\ Get(req[c], "children") = Str("Custom Button")
        /\ dom[c].children = Str("Custom Button")

\* A step in which context c's Button is rendered.
RenderStep(c) == pc[c] = "building" /\ pc'[c] = "committed"

\* C14: rendering Button leaves the props object the caller passed as it
\* was, and changes nothing but that context's own output.
C14_Frame ==
    [][\A c \in Ctx :
          RenderStep(c) =>
              /\ req' = req
              /\ prev' = prev /\ locals' = locals /\ clicks' = clicks /\ calls' = calls
              /\ query' = query /\ page' = page /\ lastEvent' = lastEvent
              /\ \A d \in Ctx \ {c} : hero'[d] = hero[d] /\ dom'[d] = dom[d] /\ pc'[d] = pc[d]]_vars

C14_Witness ==
    \E c \in Ctx :
        /\ Committed(c)
        /\ DOMAIN req[c] = {"children", "onClick"}
        /\ Get(hero[c], "size") = Str("md")
        /\ Get(hero[c], "isLoading") = Bool(FALSE)

IsLink(e) == e.tag = "a" /\ Truthy(Get(e.attrs, "href"))
IsHeading(e) == e.tag \in {"h1", "h2", "h3", "h4", "h5", "h6"}

Links(pg) == SelectSeq(pg, IsLink)
Headings(pg) == SelectSeq(pg, IsHeading)

\* C15: in every state of the search and filter controls the Home page
\* renders exactly five links (Deploy now, HeroUI Docs, Learn, Examples, Go
\* to nextjs.org) and exactly two headings, an H1 followed by an H2.
C15_LinksAndHeadings ==
    page # << >> =>
        /\ [i \in 1..Len(Links(page)) |-> Links(page)[i].text]
             = << Str("Deploy now"), Str("HeroUI Docs"), Str("Learn"), Str("Examples"),
                  Str("Go to nextjs.org") >>
        /\ [i \in 1..Len(Headings(page)) |-> Headings(page)[i].tag] = << "h1", "h2" >>

C15_Witness ==
    /\ page # << >>
    /\ Len(query.search) = 2
    /\ query.category = Str("backend")
    /\ query.priority = Str("low")
    /\ Len(Links(page)) = 5
    /\ Len(Headings(page)) = 2

\* C16: every link the Home page renders carries target="_blank" together
\* with rel="noopener noreferrer".
C16_LinkTargets ==
    \A i \in 1..Len(page) :
        IsLink(page[i]) =>
            /\ Get(page[i].attrs, "target") = Str("_blank")
            /\ Get(page[i].attrs, "rel") = Str("noopener noreferrer")

C16_Witness ==
    /\ page # << >>
    /\ query.search # << >>
    /\ query.category = Str("design")
    /\ \E i, j \in 1..Len(page) :
          /\ Get(page[i].attrs, "data-testid") = Str("hero-button") /\ IsLink(page[i])
          /\ Get(page[j].attrs, "data-testid") = Str("hero-link") /\ IsLink(page[j])

\* The variant and size a request asks for, defaults applied.
Asked(p, k, dflt) == OrDefault(Get(p, k), dflt)

\* C17: a color or isLoading the caller passes is what the underlying button
\* is handed in place of the value derived from variant or loading, also when
\* the value passed is undefined; the style and size handed on are those
\* derived from variant and size, whatever else the caller passes.
C17_Override ==
    \A c \in Ctx :
        Committed(c) =>
            /\ \A k \in {"color", "isLoading"} \cap DOMAIN req[c] :
                  k \in DOMAIN hero[c] /\ hero[c][k] = req[c][k]
            /\ Get(hero[c], "variant")
                 = getHeroUIVariant(Asked(req[c], "variant", Str("primary")))
            /\ Get(hero[c], "size") = Asked(req[c], "size", Str("md"))

C17_Witness ==
    \E c \in Ctx :
        /\ Committed(c)
        /\ Get(req[c], "variant") = Str("danger")
        /\ Get(req[c], "size") = Str("lg")
        /\ "color" \in DOMAIN req[c] /\ req[c]["color"] = Undefined
        /\ "color" \in DOMAIN hero[c] /\ hero[c]["color"] = Undefined
        /\ Get(hero[c], "variant") = Str("solid")
        /\ Get(hero[c], "size") = Str("lg")

\* C18: for every render request, whatever its variant and passthrough props,
\* the style handed to the underlying button is solid, flat or bordered, and
\* when the caller passes no color the color handed on is primary, default
\* or danger.
C18_Ranges ==
    \A c \in Ctx :
        Committed(c) =>
            /\ Get(hero[c], "variant") \in {Str("solid"), Str("flat"), Str("bordered")}
            /\ "color" \notin DOMAIN req[c]
                 => Get(hero[c], "color") \in {Str("primary"), Str("default"), Str("danger")}

C18_Witness ==
    \E c \in Ctx :
        /\ Committed(c)
        /\ Get(req[c], "variant") = Str("ghost")
        /\ Get(req[c], "aria-label") = Str("Custom Button")
        /\ "color" \notin DOMAIN req[c]
        /\ Pair(hero[c]) = <<Str("solid"), Str("primary")>>

\* p without those of variant, size and loading that hold undefined.
Omitted(p) ==
    [k \in {j \in DOMAIN p : ~(j \in {"variant", "size", "loading"} /\ p[j] = Undefined)}
        |-> p[k]]

\* C19 as stated: a variant, size or loading passed as undefined gives
\* (solid, primary), md and busy false respectively.
C19_Original ==
    \A c \in Ctx :
        Committed(c) =>
            /\ "variant" \in DOMAIN req[c] /\ req[c]["variant"] = Undefined
                 => Pair(hero[c]) = FallbackRow
            /\ "size" \in DOMAIN req[c] /\ req[c]["size"] = Undefined
                 => Get(hero[c], "size") = Str("md")
            /\ "loading" \in DOMAIN req[c] /\ req[c]["loading"] = Undefined
                 => Get(hero[c], "isLoading") = Bool(FALSE)

\* C19: a variant, size or loading passed as undefined renders what omitting
\* it renders: style solid, size md, and color primary and busy false unless
\* the caller passes a color or isLoading of its own.
C19_UndefinedAsOmitted ==
    \A c \in Ctx :
        Committed(c) =>
            /\ hero[c] = Button(Omitted(req[c]))
            /\ "variant" \in DOMAIN req[c] /\ req[c]["variant"] = Undefined
                 => /\ Get(hero[c], "variant") = Str("solid")
                    /\ "color" \notin DOMAIN req[c] => Get(hero[c], "color") = Str("primary")
            /\ "size" \in DOMAIN req[c] /\ req[c]["size"] = Undefined
                 => Get(hero[c], "size") = Str("md")
            /\ "loading" \in DOMAIN req[c] /\ req[c]["loading"] = Undefined
                 => ("isLoading" \notin DOMAIN req[c]
                        => Get(hero[c], "isLoading") = Bool(FALSE))

C19_Witness ==
    \E c \in Ctx :
        /\ Committed(c)
        /\ {"variant", "size", "loading"} \subseteq DOMAIN req[c]
        /\ req[c]["variant"] = Undefined
        /\ req[c]["size"] = Undefined
        /\ req[c]["loading"] = Undefined
        /\ Omitted(req[c]) # req[c]
        /\ hero[c] = [variant |-> Str("solid"), color |-> Str("primary"), size |-> Str("md"),
                      isLoading |-> Bool(FALSE), children |-> req[c]["children"]]

\* C20: two renders of different defined variants, neither passing a color,
\* hand on different style/color pairs; primary and danger share the style,
\* secondary and outline share the color.
C20_Injective ==
    \A c, d \in Ctx :
        LET v == Asked(req[c], "variant", Str("primary"))
            w == Asked(req[d], "variant", Str("primary"))
        IN  /\ Committed(c) /\ Committed(d)
            /\ v \in DefinedVariants /\ w \in DefinedVariants
            /\ "color" \notin DOMAIN req[c] /\ "color" \notin DOMAIN req[d]
            => /\ v # w => Pair(hero[c]) # Pair(hero[d])
               /\ v = w => Pair(hero[c]) = Pair(hero[d])
               /\ {v, w} = {Str("primary"), Str("danger")}
                    => Get(hero[c], "variant") = Get(hero[d], "variant")
               /\ {v, w} = {Str("secondary"), Str("outline")}
                    => Get(hero[c], "color") = Get(hero[d], "color")

C20_Witness ==
    \E c, d \in Ctx :
        /\ Committed(c) /\ Committed(d)
        /\ Get(req[c], "variant") = Str("primary")
        /\ Get(req[d], "variant") = Str("danger")
        /\ Get(hero[c], "variant") = Get(hero[d], "variant")
        /\ Get(hero[c], "color") # Get(hero[d], "color")

Panels(pg) == {i \in 1..Len(pg) : pg[i].tag = "p" /\ pg[i].text = Str("Active filters:")}

\* Where the page shows a small flat chip of the color.
FilterChips(pg, color) ==
    {i \in 1..Len(pg) : /\ pg[i].tag = "span"
                        /\ Get(pg[i].attrs, "size") = Str("sm")
                        /\ Get(pg[i].attrs, "color") = Str(color)}

\* C23: the 'Active filters' panel is shown exactly when category or
\* priority is not 'all'; in it the category chip is shown exactly when
\* category is not 'all' and the priority chip exactly when priority is not
\* 'all', so a shown panel holds at least one chip.
C23_ActiveFilters ==
    page # << >> =>
        /\ Panels(page) # {} <=> (query.category # Str("all") \/ query.priority # Str("all"))
        /\ FilterChips(page, "primary") # {} <=> query.category # Str("all")
        /\ FilterChips(page, "secondary") # {} <=> query.priority # Str("all")
        /\ \A i \in FilterChips(page, "primary") \cup FilterChips(page, "secondary") :
              \E j \in Panels(page) : j < i
        /\ \A i \in FilterChips(page, "primary") : page[i].text = query.category
        /\ Panels(page) # {}
             => FilterChips(page, "primary") \cup FilterChips(page, "secondary") # {}

C23_Witness ==
    /\ page # << >>
    /\ query.category = Str("all")
    /\ query.priority = Str("high")
    /\ Panels(page) # {}
    /\ FilterChips(page, "primary") = {}
    /\ FilterChips(page, "secondary") # {}

====
